---------------------------- MODULE Spec2Model ----------------------------
(***************************************************************************)
(* Model of python_inspector.package_data (get_file_match_key,             *)
(* get_pypi_data_from_purl, choose_single_wheel) and of                    *)
(* python_inspector.pybuilder_support (parse_pybuilder_dependencies).      *)
(*                                                                         *)
(* Python strings are sequences of code points, so that urlparse,          *)
(* posixpath.basename, re.search, str.strip, str.replace and the ordering  *)
(* of strings are computed the way the library computes them.  Python's    *)
(* None is the sequence <<-1>>, which is no string.                        *)
(***************************************************************************)
EXTENDS Integers, Sequences, FiniteSets, TLC

VARIABLES
    \* get_pypi_data_from_purl
    pc, version, repos, prefer_source, response, sdist_url, wheel_urls,
    valid_distribution_urls, urls_by_filename, result, calls,
    \* get_file_match_key
    key_pc, key_url, key_sha256, key_result,
    \* choose_single_wheel
    cw_pc, cw_input, cw_wheel_urls, cw_result,
    \* parse_pybuilder_dependencies
    pyb_pc, build_py, deps

resolver_vars == <<pc, version, repos, prefer_source, response, sdist_url, wheel_urls,
                   valid_distribution_urls, urls_by_filename, result, calls>>
key_vars == <<key_pc, key_url, key_sha256, key_result>>
cw_vars == <<cw_pc, cw_input, cw_wheel_urls, cw_result>>
pyb_vars == <<pyb_pc, build_py, deps>>
vars == <<resolver_vars, key_vars, cw_vars, pyb_vars>>

----------------------------------------------------------------------------
(* Python values *)

None == <<-1>>

\* bool(s) of an Optional[str]: None and "" are falsy
Truthy(s) == s # None /\ s # <<>>

Range(s) == {s[i] : i \in 1..Len(s)}

Min(S) == CHOOSE x \in S : \A y \in S : x <= y

\* F applied to the value of e, with e evaluated once (a local variable of the code)
With(e, F(_)) == CHOOSE r \in {F(x) : x \in {e}} : TRUE

\* s[i:] and s[:i] with Python's 0-based slice bounds
From(s, i) == SubSeq(s, i + 1, Len(s))
Upto(s, i) == SubSeq(s, 1, i)

\* str.find(c, start) for a single character, as a 1-based index; 0 when absent
Find(s, c, start) ==
    LET hits == {i \in start..Len(s) : s[i] = c}
    IN  IF hits = {} THEN 0 ELSE Min(hits)

\* str.rfind(c) for a single character, as a 1-based index; 0 when absent
RFind(s, c) ==
    LET hits == {i \in 1..Len(s) : s[i] = c}
    IN  IF hits = {} THEN 0 ELSE CHOOSE i \in hits : \A j \in hits : j <= i

\* s.startswith(p, at) with a 1-based position
StartsAt(s, p, at) ==
    /\ at + Len(p) - 1 <= Len(s)
    /\ \A j \in 1..Len(p) : s[at + j - 1] = p[j]

\* Python's ordering of str: code point by code point, a proper prefix is smaller
StrLess(a, b) ==
    \E k \in 1..(Len(b)) :
        /\ \A j \in 1..(k - 1) : j <= Len(a) /\ a[j] = b[j]
        /\ k - 1 <= Len(a)
        /\ (k > Len(a) \/ a[k] < b[k])

----------------------------------------------------------------------------
(* urllib.parse.urlparse and posixpath.basename *)

IsAlpha(c) == (c >= 97 /\ c <= 122) \/ (c >= 65 /\ c <= 90)
IsDigit(c) == c >= 48 /\ c <= 57
\* urllib.parse.scheme_chars: letters, digits and "+-."
IsSchemeChar(c) == IsAlpha(c) \/ IsDigit(c) \/ c \in {43, 45, 46}

\* urlsplit: the position of the ":" that ends a scheme, 0 when the URL has none
SchemeEnd(url) ==
    LET i == Find(url, 58, 1)
    IN  IF i > 1 /\ IsAlpha(url[1]) /\ \A j \in 1..(i - 1) : IsSchemeChar(url[j])
        THEN i ELSE 0

\* _splitnetloc(url, 2): the netloc ends at the first of "/", "?", "#"
NetlocEnd(rest) ==
    LET hits == {i \in 3..Len(rest) : rest[i] \in {47, 63, 35}}
    IN  IF hits = {} THEN Len(rest) ELSE Min(hits) - 1

\* _splitparams: the ";" that starts the params of the last path segment
ParamsAt(p) ==
    LET slash == RFind(p, 47)
    IN  Find(p, 59, IF slash = 0 THEN 1 ELSE slash)

\* urlparse, from the path on: the query, then the params of the last segment
ParsePath(scheme, netloc, noFrag, fragment) ==
    With(Find(noFrag, 63, 1), LAMBDA qAt :
    With(IF qAt = 0 THEN noFrag ELSE Upto(noFrag, qAt - 1), LAMBDA fullPath :
    With(ParamsAt(fullPath), LAMBDA pAt :
        [scheme |-> scheme, netloc |-> netloc,
         path |-> IF pAt = 0 THEN fullPath ELSE Upto(fullPath, pAt - 1),
         params |-> IF pAt = 0 THEN <<>> ELSE From(fullPath, pAt),
         query |-> IF qAt = 0 THEN <<>> ELSE From(noFrag, qAt),
         fragment |-> fragment])))

\* urlparse, after the scheme: the netloc after "//", then the fragment after "#"
ParseNetloc(scheme, rest) ==
    With(IF StartsAt(rest, <<47, 47>>, 1) THEN NetlocEnd(rest) ELSE 0, LAMBDA ne :
    With(From(rest, ne), LAMBDA afterNet :
    With(Find(afterNet, 35, 1), LAMBDA hashAt :
        ParsePath(scheme,
                  IF ne = 0 THEN <<>> ELSE SubSeq(rest, 3, ne),
                  IF hashAt = 0 THEN afterNet ELSE Upto(afterNet, hashAt - 1),
                  IF hashAt = 0 THEN <<>> ELSE From(afterNet, hashAt)))))

urlparse(url) ==
    With(url, LAMBDA u :
    With(SchemeEnd(u), LAMBDA se :
    With(From(u, se), LAMBDA rest :
        ParseNetloc(Upto(u, IF se = 0 THEN 0 ELSE se - 1), rest))))

\* posixpath.basename(p): what follows the last "/"
basename(p) == From(p, RFind(p, 47))

\* posixpath.basename(urlparse(url).path)
Filename(url) == basename(urlparse(url).path)

----------------------------------------------------------------------------
(* get_file_match_key *)

\* the length of the hex run the pattern sha256=([a-f0-9]{64}) asks for
HashLen == 64

Sha256Eq == <<115, 104, 97, 50, 53, 54, 61>>    \* "sha256="

\* the character class [a-f0-9]
IsLowerHex(c) == (c >= 97 /\ c <= 102) \/ (c >= 48 /\ c <= 57)

\* the pattern matches at position i of the fragment
PatternAt(fragment, i) ==
    /\ StartsAt(fragment, Sha256Eq, i)
    /\ i + Len(Sha256Eq) + HashLen - 1 <= Len(fragment)
    /\ \A j \in 0..(HashLen - 1) : IsLowerHex(fragment[i + Len(Sha256Eq) + j])

\* re.search(r"sha256=([a-f0-9]{64})", fragment): group(1) of the leftmost match, or None
SearchSha256(fragment) ==
    LET hits == {i \in 1..Len(fragment) : PatternAt(fragment, i)}
    IN  IF hits = {} THEN None
        ELSE LET i == Min(hits)
             IN  SubSeq(fragment, i + Len(Sha256Eq), i + Len(Sha256Eq) + HashLen - 1)

\* a fragment is searched whatever hash was supplied
SearchesFragmentAlways(sha256, fragment) == fragment # <<>>

\* line 60: if not sha256 and parsed.fragment
SearchesFragment(sha256, fragment) == ~Truthy(sha256) /\ fragment # <<>>

get_file_match_key(url, sha256) ==
    With(urlparse(url), LAMBDA parsed :
    With(IF SearchesFragment(sha256, parsed.fragment)
         THEN SearchSha256(parsed.fragment) ELSE None, LAMBDA found :
        <<basename(parsed.path), IF found # None THEN found ELSE sha256>>))


----------------------------------------------------------------------------
(* choose_single_wheel *)

\* the place list.sort() without reverse=True gives x
InsertAsc(x, sorted) ==
    LET keep == {i \in 0..Len(sorted) : \A j \in 1..i : ~StrLess(x, sorted[j])}
        at   == CHOOSE i \in keep : \A k \in keep : k <= i
    IN  Upto(sorted, at) \o <<x>> \o From(sorted, at)

RECURSIVE SortAsc(_)
\* wheel_urls.sort(): ascending
SortAsc(s) ==
    IF s = <<>> THEN <<>>
    ELSE InsertAsc(s[Len(s)], SortAsc(Upto(s, Len(s) - 1)))

\* the place list.sort(reverse=True) gives x among the already sorted elements:
\* after every element that is not smaller than x (the sort is stable)
InsertDesc(x, sorted) ==
    LET keep == {i \in 0..Len(sorted) : \A j \in 1..i : ~StrLess(sorted[j], x)}
        at   == CHOOSE i \in keep : \A k \in keep : k <= i
    IN  Upto(sorted, at) \o <<x>> \o From(sorted, at)

RECURSIVE SortDesc(_)
\* wheel_urls.sort(reverse=True)
SortDesc(s) ==
    IF s = <<>> THEN <<>>
    ELSE InsertDesc(s[Len(s)], SortDesc(Upto(s, Len(s) - 1)))

\* the value choose_single_wheel returns for the (sorted) list
FirstOrNone(sorted) == IF sorted # <<>> THEN sorted[1] ELSE None

choose_single_wheel(urls) == FirstOrNone(SortDesc(urls))

----------------------------------------------------------------------------
(* urllib.parse.urljoin, str.replace *)

RECURSIVE Split(_, _)
\* s.split(c) for a single character
Split(s, c) ==
    LET i == Find(s, c, 1)
    IN  IF i = 0 THEN <<s>> ELSE <<Upto(s, i - 1)>> \o Split(From(s, i), c)

RECURSIVE Join(_, _)
\* c.join(parts)
Join(parts, c) ==
    IF parts = <<>> THEN <<>>
    ELSE IF Len(parts) = 1 THEN parts[1]
    ELSE parts[1] \o <<c>> \o Join(Tail(parts), c)

RECURSIVE Replace(_, _, _)
\* s.replace(old, new) for a non-empty old
Replace(s, old, new) ==
    LET hits == {i \in 1..Len(s) : StartsAt(s, old, i)}
    IN  IF hits = {} THEN s
        ELSE LET i == Min(hits)
             IN  Upto(s, i - 1) \o new \o Replace(From(s, i + Len(old) - 1), old, new)

\* urlunparse for the schemes that use a netloc (http, https)
urlunparse(scheme, netloc, path, params, query, fragment) ==
    LET withParams == IF params # <<>> THEN path \o <<59>> \o params ELSE path
        rooted     == IF withParams # <<>> /\ withParams[1] # 47
                      THEN <<47>> \o withParams ELSE withParams
        withNet    == IF netloc # <<>> \/ (scheme # <<>> /\ ~StartsAt(withParams, <<47, 47>>, 1))
                      THEN <<47, 47>> \o netloc \o rooted ELSE withParams
        withScheme == IF scheme # <<>> THEN scheme \o <<58>> \o withNet ELSE withNet
        withQuery  == IF query # <<>> THEN withScheme \o <<63>> \o query ELSE withScheme
    IN  IF fragment # <<>> THEN withQuery \o <<35>> \o fragment ELSE withQuery

RECURSIVE ResolveDots(_, _)
\* urljoin's loop over the segments: ".." pops, "." is dropped
ResolveDots(segments, resolved) ==
    IF segments = <<>> THEN resolved
    ELSE LET seg == Head(segments)
         IN  IF seg = <<46, 46>>
             THEN ResolveDots(Tail(segments),
                              IF resolved = <<>> THEN <<>> ELSE Upto(resolved, Len(resolved) - 1))
             ELSE IF seg = <<46>> THEN ResolveDots(Tail(segments), resolved)
             ELSE ResolveDots(Tail(segments), Append(resolved, seg))

\* segments[1:-1] = filter(None, segments[1:-1])
DropEmptyInner(segments) ==
    IF Len(segments) <= 2 THEN segments
    ELSE <<segments[1]>>
         \o SelectSeq(SubSeq(segments, 2, Len(segments) - 1), LAMBDA x : x # <<>>)
         \o <<segments[Len(segments)]>>

\* urljoin when the reference has a path: merge with the base path, remove the dots
JoinPaths(scheme, b, u) ==
    With(Split(b.path, 47), LAMBDA bsplit :
    With(IF bsplit[Len(bsplit)] # <<>> THEN Upto(bsplit, Len(bsplit) - 1) ELSE bsplit,
         LAMBDA base_parts :
    With(IF u.path # <<>> /\ u.path[1] = 47
         THEN Split(u.path, 47)
         ELSE DropEmptyInner(base_parts \o Split(u.path, 47)), LAMBDA segments :
    With(ResolveDots(segments, <<>>), LAMBDA resolved :
    With(Join(IF segments[Len(segments)] \in {<<46>>, <<46, 46>>}
              THEN Append(resolved, <<>>) ELSE resolved, 47), LAMBDA joined :
        urlunparse(scheme, b.netloc, IF joined = <<>> THEN <<47>> ELSE joined,
                   u.params, u.query, u.fragment))))))

\* urljoin(base, url) for http(s) URLs
urljoin(base, url) ==
    IF base = <<>> THEN url
    ELSE IF url = <<>> THEN base
    ELSE
      With(urlparse(base), LAMBDA b :
      With(urlparse(url), LAMBDA u :
      With(IF u.scheme = <<>> THEN b.scheme ELSE u.scheme, LAMBDA scheme :
          IF scheme # b.scheme THEN url
          ELSE IF u.netloc # <<>>
          THEN urlunparse(scheme, u.netloc, u.path, u.params, u.query, u.fragment)
          ELSE IF u.path = <<>> /\ u.params = <<>>
          THEN urlunparse(scheme, b.netloc, b.path, b.params,
                          IF u.query = <<>> THEN b.query ELSE u.query, u.fragment)
          ELSE JoinPaths(scheme, b, u))))

----------------------------------------------------------------------------
(* get_pypi_data_from_purl *)

PackageName == <<112>>                  \* the purl's name, "p"
SimpleSuffix == <<47,115,105,109,112,108,101>>    \* "/simple"
PypiSuffix == <<47,112,121,112,105>>              \* "/pypi"
JsonSuffix == <<47,106,115,111,110>>              \* "/json"
DefaultBasePath == <<104,116,116,112,115,58,47,47,112,121,112,105,46,111,114,103,47,112,121,112,105>> \* "https://pypi.org/pypi"

\* api_url = f"{base_path}/{name}/{version}/json"
ApiUrl(rs, v) ==
    LET base_path == IF rs # <<>> THEN Replace(rs[1].index_url, SimpleSuffix, PypiSuffix)
                     ELSE DefaultBasePath
    IN  base_path \o <<47>> \o PackageName \o <<47>> \o v \o JsonSuffix

\* bool(response): None and the empty mapping are falsy
ResponseTruthy(r) == r.kind = "json"

\* the version is never tested
AfterParseUnchecked(v) == "fetch"

\* lines 83-84: if not version: raise
AfterParse(v) == IF ~Truthy(v) THEN "raised" ELSE "fetch"

\* the response is never tested: None.get(...) raises, an empty mapping goes on
AfterFetchUnchecked(r) == IF r.kind = "None" THEN "raised" ELSE "sdist"

\* lines 99-100: if not response: return None
AfterFetch(r) == IF ~ResponseTruthy(r) THEN "done" ELSE "sdist"

RECURSIVE get_sdist_download_url(_)
\* the download URL of the first repository that has a valid sdist; None when the loop ends
get_sdist_download_url(rs) ==
    IF rs = <<>> THEN None
    ELSE IF rs[1].sdist # None THEN rs[1].sdist
    ELSE get_sdist_download_url(Tail(rs))

RECURSIVE get_wheel_download_urls(_)
\* the download URLs of the supported wheels of every repository, in order
get_wheel_download_urls(rs) ==
    IF rs = <<>> THEN <<>>
    ELSE rs[1].wheels \o get_wheel_download_urls(Tail(rs))

\* the candidate list once the sdist URL is known (lines 108-115)
SdistCandidates(sdist) == IF Truthy(sdist) THEN <<sdist>> ELSE <<>>

\* the wheel layer is consulted only when both hold
NeedsWheelsBoth(candidates, prefer) == candidates = <<>> /\ ~prefer

\* whether the wheel layer is consulted (line 119)
NeedsWheels(candidates, prefer) == candidates = <<>> \/ ~prefer

\* valid_distribution_urls.insert(0, wheel_url) when a wheel was chosen (lines 129-131)
InsertWheel(candidates, wheel_url) ==
    IF Truthy(wheel_url) THEN <<wheel_url>> \o candidates ELSE candidates

EmptyIndex == [f \in {} |-> None]

\* a dict that keeps the entry it already has under a key
SetItemKeepsFirst(index, filename, url_entry) == index @@ (filename :> url_entry)

\* urls_by_filename[filename] = url_entry (line 149): a key already there is overwritten
SetItem(index, filename, url_entry) == (filename :> url_entry) @@ index

RECURSIVE BuildIndex(_, _, _)
\* urls_by_filename after the loop over response["urls"] (lines 138-149)
BuildIndex(urls, api_url, index) ==
    IF urls = <<>> THEN index
    ELSE LET url_entry == Head(urls)
             url       == url_entry.url
         IN  IF Truthy(url)
             THEN BuildIndex(Tail(urls), api_url,
                             SetItem(index, Filename(urljoin(api_url, url)), url_entry))
             ELSE BuildIndex(Tail(urls), api_url, index)

NoPackageData == [kind |-> "None"]

\* x or y for Optional[str]
Or(x, y) == IF Truthy(x) THEN x ELSE y

\* the PackageData built at lines 160-186 (the fields taken from info are left out)
PackageData(dist_url, url_data, api_url) ==
    [kind |-> "PackageData",
     api_data_url |-> api_url,
     download_url |-> dist_url,
     size |-> url_data.size,
     md5 |-> Or(url_data.digests.md5, url_data.md5_digest),
     sha256 |-> url_data.digests.sha256,
     release_date |-> url_data.upload_time]

RECURSIVE MatchCandidatesLast(_, _, _)
\* the loop without its early return: the last indexed candidate is used
MatchCandidatesLast(candidates, index, api_url) ==
    IF candidates = <<>> THEN NoPackageData
    ELSE LET dist_url == candidates[Len(candidates)]
             filename == Filename(dist_url)
         IN  IF filename \notin DOMAIN index
             THEN MatchCandidatesLast(Upto(candidates, Len(candidates) - 1), index, api_url)
             ELSE PackageData(dist_url, index[filename], api_url)

RECURSIVE MatchCandidates(_, _, _)
\* the loop over valid_distribution_urls and the final return None (lines 152-188)
MatchCandidates(candidates, index, api_url) ==
    IF candidates = <<>> THEN NoPackageData
    ELSE LET dist_url == Head(candidates)
             filename == Filename(dist_url)
         IN  IF filename \notin DOMAIN index
             THEN MatchCandidates(Tail(candidates), index, api_url)
             ELSE PackageData(dist_url, index[filename], api_url)

----------------------------------------------------------------------------
(* parse_pybuilder_dependencies *)

(* A node of the syntax tree ast.parse returns is a record:                  *)
(*   kind   the node class: Module, Call, Attribute, Name, Constant,        *)
(*          JoinedStr, Starred, keyword;                                    *)
(*   id     the id of a Name, the attr of an Attribute, the arg of a keyword;*)
(*   value  the value of a Constant when it is a str, None when it is not;  *)
(*   kids   the child nodes in field order: of a Call the func, the args    *)
(*          and the keywords; of an Attribute its value; of a Module its    *)
(*          statements' expressions;                                        *)
(*   nargs  of a Call, the number of positional args.                       *)

Node(kind, id, value, nargs, kids) ==
    [kind |-> kind, id |-> id, value |-> value, nargs |-> nargs, kids |-> kids]

PYB_CALL_ATTRS ==
    [attr \in {"depends_on", "build_depends_on", "test_depends_on"} |->
        CASE attr = "depends_on" -> "install"
          [] attr = "build_depends_on" -> "build"
          [] attr = "test_depends_on" -> "test"]

PurlPrefix == <<112,107,103,58,112,121,112,105,47>>    \* "pkg:pypi/"

\* str.isspace for the characters str.strip() removes
IsSpace(c) == c \in (9..13) \cup (28..32) \cup {133, 160}

\* str.strip()
strip(s) ==
    LET solid == {i \in 1..Len(s) : ~IsSpace(s[i])}
    IN  IF solid = {} THEN <<>>
        ELSE SubSeq(s, Min(solid), CHOOSE i \in solid : \A j \in solid : j <= i)

\* _const without the strip()
ConstRaw(node) ==
    IF node.kind = "Constant" /\ node.value # None THEN node.value ELSE None

\* _const(node): the stripped value of a str constant, None for any other node
_const(node) ==
    IF node.kind = "Constant" /\ node.value # None THEN strip(node.value) ELSE None

\* node.args of a Call
CallArgs(node) == SubSeq(node.kids, 2, 1 + node.nargs)

\* the receiver of the attribute is not looked at
IsCallOnAnyReceiver(func) ==
    func.kind = "Attribute" /\ func.id \in DOMAIN PYB_CALL_ATTRS

\* lines 54-58: the callee is project.<one of PYB_CALL_ATTRS>
IsProjectCall(func) ==
    /\ func.kind = "Attribute" /\ func.id \in DOMAIN PYB_CALL_ATTRS
    /\ func.kids[1].kind = "Name" /\ func.kids[1].id = "project"

\* f"{name}{spec}" whatever spec is: str(None) is "None"
ExtractedReqUnguarded(name, spec) ==
    name \o (IF spec = None THEN <<78, 111, 110, 101>> ELSE spec)

\* line 62: extracted_req = f"{name}{spec or ''}" if spec else name
ExtractedReq(name, spec) == IF Truthy(spec) THEN name \o Or(spec, <<>>) ELSE name

\* lines 59-69: what a recognized call appends to deps
Declared(scope, args) ==
    With(IF args # <<>> THEN _const(args[1]) ELSE None, LAMBDA name :
    With(IF Len(args) > 1 THEN _const(args[2]) ELSE None, LAMBDA spec :
        IF Truthy(name)
        THEN <<[purl |-> PurlPrefix \o name,
                extracted_requirement |-> ExtractedReq(name, spec),
                scope |-> scope]>>
        ELSE <<>>))

\* lines 54-69 of visit_Call: the records the call itself appends to deps
Emitted(node) ==
    IF IsProjectCall(node.kids[1])
    THEN Declared(PYB_CALL_ATTRS[node.kids[1].id], CallArgs(node))
    ELSE <<>>

RECURSIVE visit(_), generic_visit_all(_)
\* NodeVisitor.visit: visit_Call for a Call (lines 53-70, ending in generic_visit),
\* generic_visit for every other node; the value is what the visit appends to deps
visit(node) ==
    IF node.kind = "Call"
    THEN Emitted(node) \o generic_visit_all(node.kids)
    ELSE generic_visit_all(node.kids)

\* NodeVisitor.generic_visit: visit every child in field order
generic_visit_all(kids) ==
    IF kids = <<>> THEN <<>> ELSE visit(Head(kids)) \o generic_visit_all(Tail(kids))

\* build_py is the text as ast.parse sees it: empty, not parseable, or a tree
parse_pybuilder_dependencies(input) ==
    IF input.text = "empty" THEN <<>>
    ELSE IF input.text = "invalid" THEN <<>>
    ELSE visit(input.tree)

----------------------------------------------------------------------------
(* Idle values of the functions a specification does not exercise *)

ResolverIdle ==
    /\ pc = "idle" /\ version = None /\ repos = <<>> /\ prefer_source = FALSE
    /\ response = [kind |-> "None", urls |-> <<>>] /\ sdist_url = None /\ wheel_urls = <<>>
    /\ valid_distribution_urls = <<>> /\ urls_by_filename = EmptyIndex
    /\ result = NoPackageData /\ calls = <<>>

KeyIdle == key_pc = "idle" /\ key_url = <<>> /\ key_sha256 = None /\ key_result = <<>>

WheelIdle == cw_pc = "idle" /\ cw_input = <<>> /\ cw_wheel_urls = <<>> /\ cw_result = None

PybIdle ==
    /\ pyb_pc = "idle" /\ deps = <<>>
    /\ build_py = [text |-> "empty", tree |-> Node("Module", "", None, 0, <<>>)]

----------------------------------------------------------------------------
(* Specification SpecKey: get_file_match_key on bounded URLs and hashes *)

\* how far the hex runs of the drawn fragments go below and above HashLen
MaxDelta == 1

Rep(c, n) == [i \in 1..n |-> c]

KeyBaseUrl == <<104,116,116,112,115,58,47,47,101,47,100,47,102,46,119,104,108>>  \* "https://e/d/f.whl"
KeyQuery == <<63,116,61,120>>              \* "?t=x"
Md5Eq == <<109,100,53,61>>                 \* "md5="
UpperSha256Eq == <<83,72,65,50,53,54,61>>  \* "SHA256="

HexRunLens == {0, 6} \cup ((HashLen - MaxDelta)..(HashLen + MaxDelta))

\* runs of one character ("a", "0", "A", "g"), and runs of "a" with one "A" at an end
HexRuns ==
    {Rep(c, n) : c \in {97, 48, 65, 103}, n \in HexRunLens}
    \cup {Rep(97, n - 1) \o <<65>> : n \in HexRunLens \ {0}}
    \cup {<<65>> \o Rep(97, n - 1) : n \in HexRunLens \ {0}}

KeyFragments ==
    {<<>>} \cup
    {pre \o algo \o run :
        pre \in {<<>>, <<120>>, Md5Eq \o <<97, 98, 38>>},
        algo \in {Sha256Eq, Md5Eq, UpperSha256Eq},
        run \in HexRuns}

KeyUrls ==
    {KeyBaseUrl \o q : q \in {<<>>, KeyQuery}}
    \cup {KeyBaseUrl \o q \o <<35>> \o f : q \in {<<>>, KeyQuery}, f \in KeyFragments}

KeyHashes == {None, <<>>, <<97, 98>>, Rep(100, HashLen)}

InitKey ==
    /\ ResolverIdle /\ WheelIdle /\ PybIdle
    /\ key_pc = "ready"
    /\ key_url \in KeyUrls
    /\ key_sha256 \in KeyHashes
    /\ key_result = <<>>

KeyCall ==
    /\ key_pc = "ready"
    /\ key_result' = get_file_match_key(key_url, key_sha256)
    /\ key_pc' = "done"
    /\ UNCHANGED <<key_url, key_sha256, resolver_vars, cw_vars, pyb_vars>>

NextKey == KeyCall

SpecKey == InitKey /\ [][NextKey]_vars

----------------------------------------------------------------------------
(* Specification SpecWheel: choose_single_wheel on bounded lists *)

MaxWheels == 3

\* "", "a", "ab", "b", "B"
WheelStrings == {<<>>, <<97>>, <<97, 98>>, <<98>>, <<66>>}

RECURSIVE SeqsUpTo(_, _)
SeqsUpTo(S, n) ==
    IF n = 0 THEN {<<>>}
    ELSE LET shorter == SeqsUpTo(S, n - 1)
         IN  shorter \cup {Append(s, x) : s \in {t \in shorter : Len(t) = n - 1}, x \in S}

InitWheel ==
    /\ ResolverIdle /\ KeyIdle /\ PybIdle
    /\ cw_pc = "ready"
    /\ cw_input \in SeqsUpTo(WheelStrings, MaxWheels)
    /\ cw_wheel_urls = cw_input
    /\ cw_result = None

WheelCall ==
    /\ cw_pc = "ready"
    /\ cw_wheel_urls' = SortDesc(cw_wheel_urls)
    /\ cw_result' = FirstOrNone(cw_wheel_urls')
    /\ cw_pc' = "done"
    /\ UNCHANGED <<cw_input, resolver_vars, key_vars, pyb_vars>>

NextWheel == WheelCall

SpecWheel == InitWheel /\ [][NextWheel]_vars

----------------------------------------------------------------------------
(* Specification Spec: get_pypi_data_from_purl, one step per await *)

MaxRepos == 2
MaxUrls == 2

IndexUrl == <<104,116,116,112,115,58,47,47,114,47,115,105,109,112,108,101>>    \* "https://r/simple"
SdistUrl == <<104,116,116,112,115,58,47,47,114,47,115,47,112,46,116,103,122>>    \* "https://r/s/p.tgz"
WheelA == <<104,116,116,112,115,58,47,47,114,47,119,47,112,45,97,46,119,104,108>>    \* "https://r/w/p-a.whl"
WheelB == <<104,116,116,112,115,58,47,47,114,47,119,47,112,45,98,46,119,104,108>>    \* "https://r/w/p-b.whl"

\* a repository: its index_url, the download URL of its valid sdist (None when it
\* has none) and the download URLs of its supported wheels
Repo(sd, ws) == [index_url |-> IndexUrl, sdist |-> sd, wheels |-> ws]

RepoChoices ==
    {Repo(None, <<>>), Repo(SdistUrl, <<>>),
     Repo(None, <<WheelA>>), Repo(SdistUrl, <<WheelA, WheelB>>)}

\* entries of response["urls"]; a key the entry lacks reads as None
EntrySdist ==
    [url |-> <<104,116,116,112,115,58,47,47,102,47,120,47,112,46,116,103,122>>,    \* 'https://f/x/p.tgz'
     size |-> <<49,49>>,
     digests |-> [md5 |-> <<109,49>>, sha256 |-> <<115,49>>],
     md5_digest |-> None,
     upload_time |-> <<116,49>>]
EntrySdistAgain ==
    [url |-> <<47,121,47,112,46,116,103,122>>,    \* '/y/p.tgz'
     size |-> <<50,50>>,
     digests |-> [md5 |-> None, sha256 |-> <<115,50>>],
     md5_digest |-> <<109,50>>,
     upload_time |-> <<116,50>>]
EntryWheelA ==
    [url |-> <<46,46,47,46,46,47,102,47,112,45,97,46,119,104,108>>,    \* '../../f/p-a.whl'
     size |-> <<51,51>>,
     digests |-> [md5 |-> None, sha256 |-> None],
     md5_digest |-> <<109,51>>,
     upload_time |-> <<116,51>>]
EntryWheelB ==
    [url |-> <<104,116,116,112,115,58,47,47,102,47,112,45,98,46,119,104,108>>,    \* 'https://f/p-b.whl'
     size |-> <<52,52>>,
     digests |-> [md5 |-> <<109,52>>, sha256 |-> <<115,52>>],
     md5_digest |-> <<109,57>>,
     upload_time |-> None]
EntryNoUrl ==
    [url |-> None,    \* None
     size |-> <<53,53>>,
     digests |-> [md5 |-> <<109,53>>, sha256 |-> <<115,53>>],
     md5_digest |-> None,
     upload_time |-> <<116,53>>]
EntryEmptyUrl ==
    [url |-> <<>>,    \* ''
     size |-> <<54,54>>,
     digests |-> [md5 |-> <<109,54>>, sha256 |-> <<115,54>>],
     md5_digest |-> None,
     upload_time |-> <<116,54>>]

EntryChoices == {EntrySdist, EntrySdistAgain, EntryWheelA, EntryWheelB, EntryNoUrl, EntryEmptyUrl}

\* what get_response_async can answer: None, an empty mapping, or a mapping with urls
ResponseChoices ==
    {[kind |-> "None", urls |-> <<>>], [kind |-> "empty", urls |-> <<>>]}
    \cup {[kind |-> "json", urls |-> us] : us \in SeqsUpTo(EntryChoices, MaxUrls)}

Init ==
    /\ KeyIdle /\ WheelIdle /\ PybIdle
    /\ pc = "start" /\ version = None /\ repos = <<>> /\ prefer_source = FALSE
    /\ response = [kind |-> "None", urls |-> <<>>] /\ sdist_url = None /\ wheel_urls = <<>>
    /\ valid_distribution_urls = <<>> /\ urls_by_filename = EmptyIndex
    /\ result = NoPackageData /\ calls = <<>>

\* lines 80-84: the call with its arguments; a purl without version raises at once
Call ==
    /\ pc = "start"
    /\ \E v \in {None, <<>>, <<49>>}, rs \in SeqsUpTo(RepoChoices, MaxRepos), prefer \in BOOLEAN :
           /\ version' = v /\ repos' = rs /\ prefer_source' = prefer
           /\ pc' = AfterParse(v)
    /\ UNCHANGED <<response, sdist_url, wheel_urls, valid_distribution_urls,
                   urls_by_filename, result, calls>>

\* lines 86-100: await get_response_async(api_url); a falsy response returns None
FetchJson ==
    /\ pc = "fetch"
    /\ \E r \in ResponseChoices :
           /\ response' = r
           /\ pc' = AfterFetch(r)
    /\ calls' = Append(calls, "get_response_async")
    /\ result' = NoPackageData
    /\ UNCHANGED <<version, repos, prefer_source, sdist_url, wheel_urls,
                   valid_distribution_urls, urls_by_filename>>

\* lines 102-119: await get_sdist_download_url(...), then the test for the wheel layer
ResolveSdist ==
    /\ pc = "sdist"
    /\ calls' = Append(calls, "get_sdist_download_url")
    /\ sdist_url' = get_sdist_download_url(repos)
    /\ valid_distribution_urls' = SdistCandidates(sdist_url')
    /\ pc' = IF NeedsWheels(valid_distribution_urls', prefer_source) THEN "wheels" ELSE "match"
    /\ UNCHANGED <<version, repos, prefer_source, response, wheel_urls,
                   urls_by_filename, result>>

\* lines 120-131: await get_wheel_download_urls(...), choose_single_wheel, insert(0, ...)
ResolveWheels ==
    /\ pc = "wheels"
    /\ calls' = Append(calls, "get_wheel_download_urls")
    /\ wheel_urls' = SortDesc(get_wheel_download_urls(repos))
    /\ valid_distribution_urls' =
           InsertWheel(valid_distribution_urls, choose_single_wheel(get_wheel_download_urls(repos)))
    /\ pc' = "match"
    /\ UNCHANGED <<version, repos, prefer_source, response, sdist_url,
                   urls_by_filename, result>>

\* lines 133-188: the filename index, the walk over the candidates, the return
MatchDistribution ==
    /\ pc = "match"
    /\ urls_by_filename' = BuildIndex(response.urls, ApiUrl(repos, version), EmptyIndex)
    /\ result' = MatchCandidates(valid_distribution_urls, urls_by_filename',
                                 ApiUrl(repos, version))
    /\ pc' = "done"
    /\ UNCHANGED <<version, repos, prefer_source, response, sdist_url, wheel_urls,
                   valid_distribution_urls, calls>>

Next ==
    \/ Call /\ UNCHANGED <<key_vars, cw_vars, pyb_vars>>
    \/ FetchJson /\ UNCHANGED <<key_vars, cw_vars, pyb_vars>>
    \/ ResolveSdist /\ UNCHANGED <<key_vars, cw_vars, pyb_vars>>
    \/ ResolveWheels /\ UNCHANGED <<key_vars, cw_vars, pyb_vars>>
    \/ MatchDistribution /\ UNCHANGED <<key_vars, cw_vars, pyb_vars>>

Spec == Init /\ [][Next]_vars

----------------------------------------------------------------------------
(* Specification SpecPyb: parse_pybuilder_dependencies on bounded syntax trees *)

MaxArgs == 2
MaxStmts == 2
MaxDepth == 2

Str(v) == Node("Constant", "", v, 0, <<>>)
NonStr == Node("Constant", "", None, 0, <<>>)          \* 1, None, b"a"
Name(id) == Node("Name", id, None, 0, <<>>)
FString == Node("JoinedStr", "", None, 0, <<>>)         \* f"{x}"
Attribute(value, attr) == Node("Attribute", attr, None, 0, <<value>>)
keyword(arg, value) == Node("keyword", arg, None, 0, <<value>>)
CallNode(func, args, keywords) == Node("Call", "", None, Len(args), <<func>> \o args \o keywords)
Module(body) == Node("Module", "", None, 0, body)

\* "a", " a ", ">1", " >1 ", "", " "
StrValues == {<<97>>, <<32,97,32>>, <<62,49>>, <<32,62,49,32>>, <<>>, <<32>>}

LeafArgs == {Str(v) : v \in StrValues} \cup {NonStr, Name("x"), FString}

Callees ==
    {Attribute(Name("project"), a) :
        a \in {"depends_on", "build_depends_on", "test_depends_on", "use_plugin"}}
    \cup {Attribute(Name("other"), "depends_on"),
          Attribute(Attribute(Name("self"), "project"), "depends_on"),
          Name("depends_on")}

FlatCalls ==
    {CallNode(f, args, <<>>) : f \in Callees, args \in SeqsUpTo(LeafArgs, MaxArgs)}
    \cup {CallNode(Attribute(Name("project"), "depends_on"), <<>>, <<keyword("name", Str(<<97>>))>>)}

\* the calls that are nested in other calls and repeated in a module
InnerCalls ==
    {CallNode(Attribute(Name("project"), "build_depends_on"), <<Str(<<32,97,32>>)>>, <<>>),
     CallNode(Attribute(Name("project"), "depends_on"), <<Str(<<97>>), Str(<<32,62,49,32>>)>>, <<>>),
     CallNode(Attribute(Name("project"), "test_depends_on"), <<Str(<<97>>), Name("x")>>, <<>>),
     CallNode(Attribute(Name("project"), "depends_on"), <<Name("x"), Str(<<62,49>>)>>, <<>>),
     CallNode(Name("f"), <<Str(<<97>>)>>, <<>>)}

\* a call around c: as an argument, as the version-spec argument, as the name
\* argument, as a keyword value, as the receiver of the callee
Wrap(c) ==
    {CallNode(Name("f"), <<c>>, <<>>),
     CallNode(Attribute(Name("project"), "depends_on"), <<Str(<<97>>), c>>, <<>>),
     CallNode(Attribute(Name("project"), "test_depends_on"), <<c>>, <<>>),
     CallNode(Name("f"), <<>>, <<keyword("k", c)>>),
     CallNode(Attribute(c, "depends_on"), <<Str(<<97>>)>>, <<>>)}

RECURSIVE NestedCalls(_)
NestedCalls(depth) ==
    IF depth = 0 THEN InnerCalls
    ELSE LET inner == NestedCalls(depth - 1)
         IN  inner \cup UNION {Wrap(c) : c \in inner}

Scripts ==
    {[text |-> "empty", tree |-> Module(<<>>)], [text |-> "invalid", tree |-> Module(<<>>)]}
    \cup {[text |-> "valid", tree |-> Module(<<c>>)] : c \in FlatCalls \cup NestedCalls(MaxDepth)}
    \cup {[text |-> "valid", tree |-> Module(body)] : body \in SeqsUpTo(InnerCalls, MaxStmts)}

InitPyb ==
    /\ ResolverIdle /\ KeyIdle /\ WheelIdle
    /\ pyb_pc = "ready"
    /\ build_py \in Scripts
    /\ deps = <<>>

PybCall ==
    /\ pyb_pc = "ready"
    /\ deps' = parse_pybuilder_dependencies(build_py)
    /\ pyb_pc' = "done"
    /\ UNCHANGED <<build_py, resolver_vars, key_vars, cw_vars>>

NextPyb == PybCall

SpecPyb == InitPyb /\ [][NextPyb]_vars

----------------------------------------------------------------------------
(* Properties of get_pypi_data_from_purl, under Spec *)

\* the call got a usable JSON response and went on to build its candidates
Resolving == Truthy(version) /\ ResponseTruthy(response)

\* the positions of the candidates whose filename is a key of the index
IndexedCandidates ==
    {i \in 1..Len(valid_distribution_urls) :
        Filename(valid_distribution_urls[i]) \in DOMAIN urls_by_filename}

\* C1: once the call has returned after a JSON response, the result is the record of
\* the first candidate (in list order) whose filename is a key of the filename index:
\* its download_url is that candidate and its size, md5, sha256 and release_date are
\* those of the indexed entry; the result is absent exactly when no candidate's
\* filename is in the index.
C1_FirstIndexedCandidate ==
    (pc = "done" /\ Resolving) =>
        IF IndexedCandidates = {} THEN result = NoPackageData
        ELSE LET dist_url == valid_distribution_urls[Min(IndexedCandidates)]
                 entry    == urls_by_filename[Filename(dist_url)]
             IN  /\ result.kind = "PackageData"
                 /\ result.download_url = dist_url
                 /\ result.size = entry.size
                 /\ result.md5 = (IF Truthy(entry.digests.md5) THEN entry.digests.md5
                                  ELSE entry.md5_digest)
                 /\ result.sha256 = entry.digests.sha256
                 /\ result.release_date = entry.upload_time

\* two candidates, both indexed: the record is the first one's, the second is unused
C1_Witness ==
    /\ pc = "done" /\ Resolving
    /\ IndexedCandidates = {1, 2}
    /\ result.kind = "PackageData"
    /\ result.download_url = valid_distribution_urls[1]
    /\ result.download_url # valid_distribution_urls[2]

\* the wheel layer was consulted
WheelsConsulted == \E i \in 1..Len(calls) : calls[i] = "get_wheel_download_urls"

\* every compatible wheel URL of every repository
AllWheels == UNION {Range(repos[i].wheels) : i \in 1..Len(repos)}

\* the candidates the wheel layer contributes: the greatest wheel URL, if any
ChosenWheel ==
    IF WheelsConsulted /\ AllWheels # {}
    THEN <<CHOOSE w \in AllWheels : \A x \in AllWheels : ~StrLess(w, x)>>
    ELSE <<>>

\* C2: once the candidate list is built, the wheel layer was consulted if and only if
\* no sdist URL was resolved or prefer_source is false; a chosen wheel is placed ahead
\* of the sdist candidate; with prefer_source and an sdist URL the list is exactly the
\* sdist URL.
C2_CandidateList ==
    (pc \in {"match", "done"} /\ Resolving) =>
        /\ WheelsConsulted <=> (~Truthy(sdist_url) \/ ~prefer_source)
        /\ valid_distribution_urls =
               ChosenWheel \o (IF Truthy(sdist_url) THEN <<sdist_url>> ELSE <<>>)
        /\ (prefer_source /\ Truthy(sdist_url)) => valid_distribution_urls = <<sdist_url>>

\* prefer_source is false, an sdist exists, and the chosen wheel leads the list
C2_Witness ==
    /\ pc = "done" /\ Resolving
    /\ ~prefer_source /\ Truthy(sdist_url)
    /\ WheelsConsulted
    /\ Len(valid_distribution_urls) = 2
    /\ valid_distribution_urls[1] = WheelB
    /\ valid_distribution_urls[2] = sdist_url

\* C3: a call with a purl that has no version has raised at once: no JSON fetch and
\* no repository call was made, and nothing was returned.
C3_NoVersionRaises ==
    (pc # "start" /\ ~Truthy(version)) =>
        /\ pc = "raised"
        /\ calls = <<>>
        /\ result = NoPackageData

\* the call was made without a version, with repositories configured
C3_Witness == pc = "raised" /\ version = None /\ repos # <<>>

\* the JSON fetch has answered
Fetched == \E i \in 1..Len(calls) : calls[i] = "get_response_async"

\* C4: for a versioned purl, a None or empty JSON response makes the call return the
\* absent result without raising, whatever repos and prefer_source are.
C4_EmptyResponseReturnsNone ==
    (Truthy(version) /\ Fetched /\ ~ResponseTruthy(response)) =>
        pc = "done" /\ result = NoPackageData

\* the fetch answered None for a call with repositories that hold an sdist and wheels
C4_Witness ==
    /\ pc = "done" /\ Truthy(version) /\ Fetched
    /\ response.kind = "None"
    /\ prefer_source
    /\ \E i \in 1..Len(repos) : repos[i].sdist # None /\ repos[i].wheels # <<>>

\* the filename an entry of response["urls"] is indexed under
EntryFilename(i) == Filename(urljoin(ApiUrl(repos, version), response.urls[i].url))

\* the positions in response["urls"] of the entries that have a non-empty url
WithUrl == {i \in 1..Len(response.urls) : Truthy(response.urls[i].url)}

\* the positions of the entries with a non-empty url and the filename f
Listed(f) == {i \in WithUrl : EntryFilename(i) = f}

\* the last entry of response["urls"] with a non-empty url and the filename f
LastListed(f) == response.urls[CHOOSE i \in Listed(f) : \A j \in Listed(f) : j <= i]

\* C11: once the call has returned after a JSON response, the keys of the filename
\* index are the filenames of the entries that have a non-empty url, an entry without
\* a url adds no key, each key maps to the last entry of the list with that filename,
\* and the size, md5, sha256 and release_date of a returned record are those of the
\* last entry listed under the filename of its download_url.
C11_LastEntryWins ==
    (pc = "done" /\ Resolving) =>
        /\ DOMAIN urls_by_filename = {EntryFilename(i) : i \in WithUrl}
        /\ \A f \in DOMAIN urls_by_filename : urls_by_filename[f] = LastListed(f)
        /\ result.kind = "PackageData" =>
               LET entry == LastListed(Filename(result.download_url))
               IN  /\ result.size = entry.size
                   /\ result.md5 = (IF Truthy(entry.digests.md5) THEN entry.digests.md5
                                    ELSE entry.md5_digest)
                   /\ result.sha256 = entry.digests.sha256
                   /\ result.release_date = entry.upload_time

\* two entries under one filename with different data: the record carries the second's
C11_Witness ==
    /\ pc = "done" /\ Resolving
    /\ Len(response.urls) = 2 /\ WithUrl = {1, 2}
    /\ EntryFilename(1) = EntryFilename(2)
    /\ response.urls[1].size # response.urls[2].size
    /\ result.kind = "PackageData"
    /\ Filename(result.download_url) = EntryFilename(2)
    /\ result.size = response.urls[2].size
    /\ result.sha256 = response.urls[2].digests.sha256

----------------------------------------------------------------------------
(* Properties of choose_single_wheel, under SpecWheel *)

\* C5: choose_single_wheel returns None for the empty list and, for a non-empty
\* list, an element of the list that no element exceeds in the ordering of strings.
C5_GreatestWheel ==
    cw_pc = "done" =>
        IF cw_input = <<>> THEN cw_result = None
        ELSE /\ cw_result \in Range(cw_input)
             /\ \A i \in 1..Len(cw_input) : ~StrLess(cw_result, cw_input[i])

\* the greatest element was not the first of the list, and another is its prefix
C5_Witness ==
    /\ cw_pc = "done"
    /\ Len(cw_input) = 3
    /\ cw_input[1] # cw_result
    /\ \E i \in 1..3 : StrLess(cw_input[i], cw_result) /\ cw_input[i] # <<>>
                       /\ cw_input[i][1] = cw_result[1]

----------------------------------------------------------------------------
(* Properties of get_file_match_key, under SpecKey *)

KeyFragment == urlparse(key_url).fragment

\* the fragment is sha256= followed by exactly HashLen lowercase hex characters
IsSha256Fragment(f) ==
    /\ Len(f) = Len(Sha256Eq) + HashLen
    /\ StartsAt(f, Sha256Eq, 1)
    /\ \A j \in (Len(Sha256Eq) + 1)..Len(f) : IsLowerHex(f[j])

\* C6, as amended: a supplied sha256 that is not the empty string is the hash
\* component of the key, whatever the URL's fragment holds.
C6_SuppliedHashKept ==
    (key_pc = "done" /\ Truthy(key_sha256)) => key_result[2] = key_sha256

\* a hash was supplied and the fragment holds another, valid one
C6_Witness ==
    /\ key_pc = "done" /\ Truthy(key_sha256)
    /\ IsSha256Fragment(KeyFragment)
    /\ SubSeq(KeyFragment, Len(Sha256Eq) + 1, Len(KeyFragment)) # key_sha256
    /\ key_result[2] = key_sha256

\* C6 as stated: every supplied sha256, the empty string included, is the hash
\* component of the key.
C6_Original ==
    (key_pc = "done" /\ key_sha256 # None) => key_result[2] = key_sha256

\* C7 as stated: with no hash argument, the hash component is absent for every URL
\* whose fragment is not sha256= followed by exactly 64 lowercase hex characters.
C7_Original ==
    (key_pc = "done" /\ key_sha256 = None /\ ~IsSha256Fragment(KeyFragment)) =>
        key_result[2] = None

----------------------------------------------------------------------------
(* Properties of parse_pybuilder_dependencies, under SpecPyb *)

RECURSIVE Nodes(_), NodesOfAll(_)
\* every node of a tree, parents before children, children in field order
Nodes(node) == <<node>> \o NodesOfAll(node.kids)
NodesOfAll(kids) == IF kids = <<>> THEN <<>> ELSE Nodes(Head(kids)) \o NodesOfAll(Tail(kids))

\* a call expression whose callee is project.depends_on, project.build_depends_on or
\* project.test_depends_on, the receiver being the bare identifier project
IsDeclaration(n) ==
    /\ n.kind = "Call"
    /\ n.kids[1].kind = "Attribute"
    /\ n.kids[1].id \in {"depends_on", "build_depends_on", "test_depends_on"}
    /\ n.kids[1].kids[1].kind = "Name"
    /\ n.kids[1].kids[1].id = "project"

IsStrLiteral(e) == e.kind = "Constant" /\ e.value # None

HasLiteralName(n) == n.nargs >= 1 /\ IsStrLiteral(n.kids[2])
HasSpecArg(n) == n.nargs >= 2
HasLiteralSpec(n) == n.nargs >= 2 /\ IsStrLiteral(n.kids[3])

\* the declarations with a literal name, in source order
LiteralDeclarations ==
    SelectSeq(Nodes(build_py.tree), LAMBDA n : IsDeclaration(n) /\ HasLiteralName(n))

\* those whose literal name is more than white space
NamedDeclarations ==
    SelectSeq(LiteralDeclarations, LAMBDA n : strip(n.kids[2].value) # <<>>)

ScopeOf(attr) ==
    CASE attr = "depends_on" -> "install"
      [] attr = "build_depends_on" -> "build"
      [] attr = "test_depends_on" -> "test"

Parsed == pyb_pc = "done" /\ build_py.text = "valid"

\* C8, as amended: there is exactly one record for each project.depends_on /
\* build_depends_on / test_depends_on call, at any depth, whose first positional
\* argument is a literal string that is not empty once stripped of white space, no
\* record for any other call, and each record's scope is that of the attribute name.
C8_OneRecordPerDeclaration ==
    Parsed =>
        /\ Len(deps) = Len(NamedDeclarations)
        /\ \A i \in 1..Len(deps) :
               i <= Len(NamedDeclarations) =>
                   deps[i].scope = ScopeOf(NamedDeclarations[i].kids[1].id)

\* a declaration nested in the arguments of another declaration: two records
C8_Witness ==
    /\ Parsed
    /\ Len(build_py.tree.kids) = 1
    /\ Len(deps) = 2
    /\ deps[1].scope = "install" /\ deps[2].scope = "build"

\* C8 as stated: one record for each such call whose first positional argument is a
\* literal string, whatever the string.
C8_Original ==
    Parsed =>
        /\ Len(deps) = Len(LiteralDeclarations)
        /\ \A i \in 1..Len(deps) :
               i <= Len(LiteralDeclarations) =>
                   deps[i].scope = ScopeOf(LiteralDeclarations[i].kids[1].id)

\* the declarations of the script
Declarations == SelectSeq(Nodes(build_py.tree), IsDeclaration)

C10_RequirementText ==
    (Parsed /\ Len(deps) = Len(NamedDeclarations)) =>
        \A i \in 1..Len(deps) :
            LET n == NamedDeclarations[i]
            IN  /\ deps[i].purl = PurlPrefix \o strip(n.kids[2].value)
                /\ HasLiteralSpec(n) =>
                       deps[i].extracted_requirement =
                           strip(n.kids[2].value) \o strip(n.kids[3].value)
                /\ ~HasSpecArg(n) =>
                       deps[i].extracted_requirement = strip(n.kids[2].value)

\* a name and a version spec written with surrounding blanks
C10_Witness ==
    /\ Parsed
    /\ Len(deps) = 1 /\ Len(NamedDeclarations) = 1
    /\ HasLiteralSpec(NamedDeclarations[1])
    /\ NamedDeclarations[1].kids[2].value = <<32, 97, 32>>
    /\ NamedDeclarations[1].kids[3].value = <<32, 62, 49, 32>>
    /\ deps[1].extracted_requirement = <<97, 62, 49>>

\* C10 as stated: the two literals exactly as written, no character removed.
C10_Original ==
    (Parsed /\ Len(deps) = Len(NamedDeclarations)) =>
        \A i \in 1..Len(deps) :
            LET n == NamedDeclarations[i]
            IN  /\ deps[i].purl = PurlPrefix \o n.kids[2].value
                /\ deps[i].extracted_requirement =
                       n.kids[2].value \o (IF HasLiteralSpec(n) THEN n.kids[3].value ELSE <<>>)

=============================================================================
